---- MODULE Spec2Model ----
(***************************************************************************)
(* A model of FloorMap (src/src/map.rs): the floor plan of one level, a    *)
(* grid of tiles plus the rooms placed on it, and the coordinate maths     *)
(* between world (pixel) space and tile space.                             *)
(*                                                                         *)
(* Two specifications share the variables:                                 *)
(*   Spec      the generation-time state machine: add_room, room_mut,      *)
(*             rooms_mut, cell edits through grid_mut, and the query       *)
(*             room_exact_area;                                            *)
(*   GeomSpec  the coordinate queries world_to_tile_pos, tile_rect and     *)
(*             grid_area_within, which read only the grid's dimensions and *)
(*             tile_size, both fixed by FloorMap::new.                     *)
(*                                                                         *)
(* TileGrid, Tile, Room, TilePos and TileRect live in modules that map.rs  *)
(* declares (mod grid; mod tile; ...) and uses; their operators below are  *)
(* written from the specification's description of them.                   *)
(***************************************************************************)
EXTENDS Integers, Sequences, FiniteSets

VARIABLES
    grid,              \* FloorMap.grid: [size |-> GridSize, tiles |-> TilePos -> Tile]
    rooms,             \* FloorMap.rooms: Vec<Room>, RoomId i is rooms[i + 1]
    tile_size,         \* FloorMap.tile_size: u32
    debug_assertions,  \* the build: TRUE with debug assertions and overflow checks
    op,                \* the last call made on the map
    arg,               \* its argument
    ret,               \* its outcome: [ok |-> FALSE] is a panic
    n_add,             \* how many add_room calls have returned
    n_ops              \* how many mutating calls have been made

vars == <<grid, rooms, tile_size, debug_assertions, op, arg, ret, n_add, n_ops>>

----------------------------------------------------------------------------
(* Bounds of the model *)

\* add_room is called at most MaxRooms times
MaxRooms == 2
\* at most MaxOps mutating calls are made on one map
MaxOps == 3

\* RoomId values a caller can hold: RoomId's field is private, so a caller
\* holds only ids that some FloorMap (this one, a clone, another level's)
\* issued
RoomIds == 0 .. (MaxRooms - 1)

\* The grid sizes of the generation-time specification
MapSizes == {[rows |-> 1, cols |-> 2], [rows |-> 2, cols |-> 2]}

----------------------------------------------------------------------------
(* Values *)

RoomTypes == {"Normal", "Challenge", "PlayerStart", "TreasureChamber"}

Ok(v) == [ok |-> TRUE, val |-> v]
Panic == [ok |-> FALSE, val |-> 0]

TilePos(r, c) == [row |-> r, col |-> c]
GridSize(r, c) == [rows |-> r, cols |-> c]
TileRect(tl, sz) == [top_left |-> tl, size |-> sz]

\* Tile: Empty, Wall with an optional room, Floor with a room. The optional
\* RoomId is a set of at most one id.
Empty == [kind |-> "Empty", room_id |-> {}]
Wall(ids) == [kind |-> "Wall", room_id |-> ids]
Floor(id) == [kind |-> "Floor", room_id |-> {id}]

Tiles == {Empty, Wall({})} \cup {Wall({i}) : i \in RoomIds} \cup {Floor(i) : i \in RoomIds}

is_room_floor(tile, id) == tile.kind = "Floor" /\ tile.room_id = {id}

\* The boundaries handed to add_room and written through room_mut: inside
\* the grid, overhanging it, and beside it
Boundaries ==
    {TileRect(TilePos(0, c), sz) : c \in {0, 1}, sz \in {GridSize(1, 1), GridSize(1, 2), GridSize(2, 2)}}

\* Room::new
Room_new(boundary) == [boundary |-> boundary, room_type |-> "Normal"]

----------------------------------------------------------------------------
(* TileGrid *)

rows_len == grid.size.rows
cols_len == grid.size.cols

Positions(size) == {TilePos(r, c) : r \in 0 .. (size.rows - 1), c \in 0 .. (size.cols - 1)}

\* TileGrid::new: every cell Empty
TileGrid_new(size) == [size |-> size, tiles |-> [p \in Positions(size) |-> Empty]]

InGrid(pos) == pos.row < rows_len /\ pos.col < cols_len

\* TileGrid::get: bounds-checked
get(pos) == IF InGrid(pos) THEN Ok(grid.tiles[pos]) ELSE Panic

\* TileRect::tile_positions: the rectangle's positions in row-major order
RECURSIVE tile_positions_from(_, _, _)
tile_positions_from(rect, r, c) ==
    IF r >= rect.size.rows THEN <<>>
    ELSE IF c >= rect.size.cols THEN tile_positions_from(rect, r + 1, 0)
    ELSE <<TilePos(rect.top_left.row + r, rect.top_left.col + c)>>
             \o tile_positions_from(rect, r, c + 1)

tile_positions(rect) == tile_positions_from(rect, 0, 0)

----------------------------------------------------------------------------
(* FloorMap *)

nrooms == Len(rooms)

\* FloorMap::room: index into rooms
room(room_id) == IF room_id < Len(rooms) THEN Ok(rooms[room_id + 1]) ELSE Panic

\* the filter(..).count() of room_exact_area over the positions left
RECURSIVE count_room_floor(_, _)
count_room_floor(positions, room_id) ==
    IF positions = <<>> THEN Ok(0)
    ELSE LET tile == get(Head(positions))
             rest == count_room_floor(Tail(positions), room_id)
         IN  IF ~tile.ok \/ ~rest.ok THEN Panic
             ELSE IF is_room_floor(tile.val, room_id) THEN Ok(rest.val + 1)
             ELSE rest

RECURSIVE count_any_floor(_)
count_any_floor(positions) ==
    IF positions = <<>> THEN Ok(0)
    ELSE LET tile == get(Head(positions))
             rest == count_any_floor(Tail(positions))
         IN  IF ~tile.ok \/ ~rest.ok THEN Panic
             ELSE IF tile.val.kind = "Floor" THEN Ok(rest.val + 1)
             ELSE rest

room_exact_area_any_floor(room_id) ==
    LET r == room(room_id)
    IN  IF ~r.ok THEN Panic
        ELSE count_any_floor(tile_positions(r.val.boundary))

\* FloorMap::room_exact_area
room_exact_area(room_id) ==
    LET r == room(room_id)
    IN  IF ~r.ok THEN Panic
        ELSE count_room_floor(tile_positions(r.val.boundary), room_id)

alive == ret.ok

Unchanged_map == UNCHANGED <<grid, rooms, tile_size, debug_assertions, n_add, n_ops>>

add_room_returns_len(boundary) ==
    /\ alive /\ n_add < MaxRooms /\ n_ops < MaxOps
    /\ rooms' = Append(rooms, Room_new(boundary))
    /\ ret' = Ok(Len(rooms'))
    /\ op' = "add_room" /\ arg' = {}
    /\ n_add' = n_add + 1 /\ n_ops' = n_ops + 1
    /\ UNCHANGED <<grid, tile_size, debug_assertions>>

\* FloorMap::add_room
add_room(boundary) ==
    /\ alive /\ n_add < MaxRooms /\ n_ops < MaxOps
    /\ rooms' = Append(rooms, Room_new(boundary))
    /\ ret' = Ok(Len(rooms') - 1)
    /\ op' = "add_room" /\ arg' = {}
    /\ n_add' = n_add + 1 /\ n_ops' = n_ops + 1
    /\ UNCHANGED <<grid, tile_size, debug_assertions>>

\* What a caller can do with a &mut Room
Room_writes(r) ==
    {[r EXCEPT !.room_type = t] : t \in RoomTypes} \cup {[r EXCEPT !.boundary = b] : b \in Boundaries}

\* FloorMap::room_mut, and the caller's write through the reference
room_mut(room_id) ==
    /\ alive /\ n_ops < MaxOps
    /\ op' = "room_mut" /\ arg' = {room_id}
    /\ n_ops' = n_ops + 1
    /\ IF room_id < Len(rooms)
       THEN /\ \E w \in Room_writes(rooms[room_id + 1]) : rooms' = [rooms EXCEPT ![room_id + 1] = w]
            /\ ret' = Ok(room_id)
       ELSE /\ rooms' = rooms
            /\ ret' = Panic
    /\ UNCHANGED <<grid, tile_size, debug_assertions, n_add>>

\* FloorMap::rooms_mut: the caller writes through the references of the ids
\* in touched, the same room type to each
rooms_mut(touched, t) ==
    /\ alive /\ n_ops < MaxOps
    /\ touched \subseteq 0 .. (Len(rooms) - 1)
    /\ op' = "rooms_mut" /\ arg' = touched
    /\ n_ops' = n_ops + 1
    /\ rooms' = [i \in 1 .. Len(rooms) |->
                    IF (i - 1) \in touched THEN [rooms[i] EXCEPT !.room_type = t] ELSE rooms[i]]
    /\ ret' = Ok(Len(rooms))
    /\ UNCHANGED <<grid, tile_size, debug_assertions, n_add>>

\* FloorMap::grid_mut, and the caller's write of one cell through
\* TileGrid::get_mut
grid_mut(pos, tile) ==
    /\ alive /\ n_ops < MaxOps
    /\ op' = "grid_mut" /\ arg' = {}
    /\ n_ops' = n_ops + 1
    /\ IF InGrid(pos)
       THEN /\ grid' = [grid EXCEPT !.tiles[pos] = tile]
            /\ ret' = Ok(0)
       ELSE /\ grid' = grid
            /\ ret' = Panic
    /\ UNCHANGED <<rooms, tile_size, debug_assertions, n_add>>

\* A call of room_exact_area
call_room_exact_area(room_id) ==
    /\ alive
    /\ op' = "room_exact_area" /\ arg' = {room_id}
    /\ ret' = room_exact_area(room_id)
    /\ Unchanged_map

\* FloorMap::new
FloorMap_new(size, ts) ==
    /\ grid = TileGrid_new(size)
    /\ rooms = <<>>
    /\ tile_size = ts

Init ==
    /\ \E size \in MapSizes : FloorMap_new(size, 1)
    /\ debug_assertions = TRUE   \* no call of this specification reads the build
    /\ op = "new" /\ arg = {} /\ ret = Ok(0)
    /\ n_add = 0 /\ n_ops = 0

Next ==
    \/ \E b \in Boundaries : add_room(b)
    \/ \E id \in RoomIds : room_mut(id)
    \/ \E touched \in SUBSET RoomIds, t \in RoomTypes : rooms_mut(touched, t)
    \/ \E pos \in Positions(GridSize(2, 2)), tile \in Tiles : grid_mut(pos, tile)
    \/ \E id \in RoomIds : call_room_exact_area(id)

Spec == Init /\ [][Next]_vars

----------------------------------------------------------------------------
(* Coordinate queries *)

\* grid dimensions run over 0 .. MaxLen
MaxLen == 2
\* tile_size runs over 0 .. MaxTile
MaxTile == 2
\* pixel coordinates run over -MaxNeg .. MaxPix
MaxNeg == 1
MaxPix == 4
\* pixel widths and heights run over 1 .. MaxSide
MaxSide == 3

Max(a, b) == IF a >= b THEN a ELSE b
Min(a, b) == IF a <= b THEN a ELSE b

Point(x, y) == [x |-> x, y |-> y]

\* sdl2's Rect::new applied to a side cast with `as u32`: a zero side becomes
\* 1 and a side above the largest sdl2 keeps (a negative i32 cast to u32 is
\* one) becomes that largest side
Rect_side(v) == IF v = 0 THEN 1 ELSE IF v < 0 \/ v > 1073741823 THEN 1073741823 ELSE v

Rect_new(x, y, w, h) == [x |-> x, y |-> y, w |-> Rect_side(w), h |-> Rect_side(h)]

\* TilePos::top_left and TilePos::bottom_right: the world corners of a tile
\* (ts is tile_size as i32, the same number for every tile size of the model)
top_left(pos, ts) == Point(pos.col * ts, pos.row * ts)
bottom_right(pos, ts) == Point((pos.col + 1) * ts, (pos.row + 1) * ts)

\* The scenario of the specification: a 5 x 5 grid of 10-pixel tiles
ExampleConfig == [rows |-> 5, cols |-> 5, ts |-> 10]
ExampleBounds == Rect_new(-15, -15, 10, 10)

GeomConfigs ==
    {[rows |-> r, cols |-> c, ts |-> t] : r \in 0 .. MaxLen, c \in 0 .. MaxLen, t \in 0 .. MaxTile}
        \cup {ExampleConfig}

Points == {Point(x, y) : x \in (-MaxNeg) .. MaxPix, y \in (-MaxNeg) .. MaxPix}

\* The rectangles handed to grid_area_within; an sdl2 Rect has no zero side
Rects ==
    {Rect_new(x, y, w, h) : x \in (-MaxNeg) .. MaxPix, y \in (-MaxNeg) .. MaxPix,
                            w \in 1 .. MaxSide, h \in 1 .. MaxSide}
        \cup {ExampleBounds}

Corners == Positions(GridSize(MaxLen + 1, MaxLen + 1))

tile_rect_exclusive(tl, br) ==
    IF debug_assertions /\ ~(tl.row <= br.row /\ tl.col <= br.col) THEN Panic
    ELSE LET a == top_left(tl, tile_size)
             b == top_left(br, tile_size)
         IN  Ok(Rect_new(a.x, a.y, b.x - a.x, b.y - a.y))

\* FloorMap::tile_rect
tile_rect(tl, br) ==
    IF debug_assertions /\ ~(tl.row <= br.row /\ tl.col <= br.col) THEN Panic
    ELSE LET a == top_left(tl, tile_size)
             b == bottom_right(br, tile_size)
         IN  Ok(Rect_new(a.x, a.y, b.x - a.x, b.y - a.y))

world_to_tile_pos_inclusive(point) ==
    IF ~(point.x >= 0 /\ point.y >= 0) THEN Panic
    ELSE IF tile_size = 0 THEN Panic
    ELSE LET row == point.y \div tile_size
             col == point.x \div tile_size
         IN  IF ~(row <= rows_len /\ col <= cols_len) THEN Panic
             ELSE Ok(TilePos(row, col))

world_to_tile_pos_swapped(point) ==
    IF ~(point.x >= 0 /\ point.y >= 0) THEN Panic
    ELSE IF tile_size = 0 THEN Panic
    ELSE LET row == point.x \div tile_size
             col == point.y \div tile_size
         IN  IF ~(row < rows_len /\ col < cols_len) THEN Panic
             ELSE Ok(TilePos(row, col))

\* FloorMap::world_to_tile_pos; the division by a zero tile_size panics
world_to_tile_pos(point) ==
    IF ~(point.x >= 0 /\ point.y >= 0) THEN Panic
    ELSE IF tile_size = 0 THEN Panic
    ELSE LET row == point.y \div tile_size
             col == point.x \div tile_size
         IN  IF ~(row < rows_len /\ col < cols_len) THEN Panic
             ELSE Ok(TilePos(row, col))

\* clamp_row and clamp_col of grid_area_within, min(max(v, 0), len - 1), where
\* len - 1 has wrapped to usize::MAX when len is 0 in a build without
\* overflow checks
clamp_index(v, len) == IF len = 0 THEN Max(v, 0) ELSE Min(Max(v, 0), len - 1)

\* the result of grid_area_within from its start and end indices
area_between(start_row, start_col, end_row, end_col) ==
    Ok([pos |-> TilePos(start_row, start_col),
        size |-> GridSize(end_row - start_row + 1, end_col - start_col + 1)])

\* grid_area_within panics on the division by a zero tile_size, and on
\* rows_len() - 1 or cols_len() - 1 of an empty grid in a build with overflow
\* checks
grid_area_panics ==
    \/ tile_size = 0
    \/ debug_assertions /\ (rows_len = 0 \/ cols_len = 0)

grid_area_within_start_only(bounds) ==
    LET x == Max(bounds.x, 0)
        y == Max(bounds.y, 0)
    IN  IF grid_area_panics THEN Panic
        ELSE LET start_row == clamp_index(y \div tile_size, rows_len)
                 start_col == clamp_index(x \div tile_size, cols_len)
             IN  area_between(start_row, start_col, start_row, start_col)

grid_area_within_unclamped_end(bounds) ==
    LET x == Max(bounds.x, 0)
        y == Max(bounds.y, 0)
        width == bounds.w
        height == bounds.h
    IN  IF grid_area_panics THEN Panic
        ELSE LET start_row == clamp_index(y \div tile_size, rows_len)
                 start_col == clamp_index(x \div tile_size, cols_len)
                 end_row == Max(start_row, (y + height) \div tile_size)
                 end_col == Max(start_col, (x + width) \div tile_size)
             IN  area_between(start_row, start_col, end_row, end_col)

grid_area_within_exclusive_end(bounds) ==
    LET x == Max(bounds.x, 0)
        y == Max(bounds.y, 0)
        width == bounds.w
        height == bounds.h
    IN  IF grid_area_panics THEN Panic
        ELSE LET start_row == clamp_index(y \div tile_size, rows_len)
                 start_col == clamp_index(x \div tile_size, cols_len)
                 end_row == clamp_index((y + height) \div tile_size, rows_len)
                 end_col == clamp_index((x + width) \div tile_size, cols_len)
             IN  area_between(start_row, start_col,
                              Max(start_row, end_row - 1), Max(start_col, end_col - 1))

\* FloorMap::grid_area_within
grid_area_within(bounds) ==
    LET x == Max(bounds.x, 0)
        y == Max(bounds.y, 0)
        width == bounds.w
        height == bounds.h
    IN  IF grid_area_panics THEN Panic
        ELSE LET start_row == clamp_index(y \div tile_size, rows_len)
                 start_col == clamp_index(x \div tile_size, cols_len)
                 end_row == clamp_index((y + height) \div tile_size, rows_len)
                 end_col == clamp_index((x + width) \div tile_size, cols_len)
             IN  area_between(start_row, start_col, end_row, end_col)

\* The coordinate queries change nothing of the map and read nothing of an
\* earlier call, so a behaviour of GeomSpec makes one of them on the map that
\* FloorMap::new built
fresh == op = "new"

\* A call of world_to_tile_pos
call_world_to_tile_pos(point) ==
    /\ alive /\ fresh
    /\ op' = "world_to_tile_pos" /\ arg' = point
    /\ ret' = world_to_tile_pos(point)
    /\ Unchanged_map

\* A call of tile_rect
call_tile_rect(tl, br) ==
    /\ alive /\ fresh
    /\ op' = "tile_rect" /\ arg' = [top_left |-> tl, bottom_right |-> br]
    /\ ret' = tile_rect(tl, br)
    /\ Unchanged_map

\* A call of grid_area_within
call_grid_area_within(bounds) ==
    /\ alive /\ fresh
    /\ op' = "grid_area_within" /\ arg' = bounds
    /\ ret' = grid_area_within(bounds)
    /\ Unchanged_map

GeomInit ==
    /\ \E cfg \in GeomConfigs : FloorMap_new(GridSize(cfg.rows, cfg.cols), cfg.ts)
    /\ debug_assertions \in BOOLEAN
    /\ op = "new" /\ arg = {} /\ ret = Ok(0)
    /\ n_add = 0 /\ n_ops = 0

GeomNext ==
    \/ \E point \in Points : call_world_to_tile_pos(point)
    \/ \E tl \in Corners, br \in Corners : call_tile_rect(tl, br)
    \/ \E bounds \in Rects : call_grid_area_within(bounds)

GeomSpec == GeomInit /\ [][GeomNext]_vars

----------------------------------------------------------------------------
(* Properties of the generation-time calls, checked under Spec *)

\* the positions of a tile rectangle, as a set
RectPositions(rect) ==
    {TilePos(rect.top_left.row + r, rect.top_left.col + c) :
        r \in 0 .. (rect.size.rows - 1), c \in 0 .. (rect.size.cols - 1)}

BoundaryInGrid(rect) == \A p \in RectPositions(rect) : InGrid(p)

\* the positions of a rectangle whose cell is the floor of room id
OwnFloor(rect, id) ==
    {p \in RectPositions(rect) \cap DOMAIN grid.tiles :
        grid.tiles[p].kind = "Floor" /\ grid.tiles[p].room_id = {id}}

\* C1: add_room is append-only and monotonic. The k-th add_room returns
\* RoomId k - 1 and raises nrooms by exactly one; no other call changes
\* nrooms; and the room of an issued id stays what it was in every step,
\* unless the step writes through the mutable reference to that id that
\* room_mut (or the rooms_mut iterator) hands out.
AddRoomStep ==
    /\ nrooms' = nrooms + (IF op' = "add_room" THEN 1 ELSE 0)
    /\ op' = "add_room" => ret' = Ok(n_add' - 1) /\ n_add' = n_add + 1 /\ nrooms' = n_add'
    /\ \A i \in 1 .. Len(rooms) :
          rooms'[i] # rooms[i] => op' \in {"room_mut", "rooms_mut"} /\ (i - 1) \in arg'

AddRoomAppendOnly == [][AddRoomStep]_vars

\* C1 witness: the second add_room has returned RoomId 1 after room 0 was
\* mutated, and room 0 still is what room_mut made it
AddRoomSecondCall ==
    /\ op = "add_room" /\ n_add = 2 /\ ret = Ok(1) /\ nrooms = 2
    /\ rooms[1].room_type = "Challenge"

\* C5 as stated: for every issued id, whatever the boundary, room_exact_area
\* returns the number of positions of the boundary whose cell is that room's
\* floor
RoomExactAreaAnyBoundary ==
    op = "room_exact_area" =>
        \A id \in arg : id < nrooms =>
            /\ ret.ok
            /\ ret.val = Cardinality(OwnFloor(rooms[id + 1].boundary, id))

\* C5 amended: for every issued id whose boundary lies inside the grid,
\* room_exact_area returns the number of positions of the boundary whose cell
\* is Floor of that room; it is at most the boundary's width * height, and
\* equal to it exactly when every cell of the boundary is that room's floor.
RoomExactAreaCountsOwnFloor ==
    op = "room_exact_area" =>
        \A id \in arg : id < nrooms /\ BoundaryInGrid(rooms[id + 1].boundary) =>
            LET b == rooms[id + 1].boundary
                area == b.size.rows * b.size.cols
            IN  /\ ret.ok
                /\ ret.val = Cardinality(OwnFloor(b, id))
                /\ ret.val <= area
                /\ ret.val = area <=> OwnFloor(b, id) = RectPositions(b)

\* C5 witness: a room whose boundary holds one floor cell of its own and a
\* floor cell of another room
RoomExactAreaSkipsOtherRoom ==
    /\ op = "room_exact_area" /\ ret = Ok(1)
    /\ \E id \in arg :
          /\ id < nrooms /\ BoundaryInGrid(rooms[id + 1].boundary)
          /\ \E p \in RectPositions(rooms[id + 1].boundary) :
                grid.tiles[p].kind = "Floor" /\ grid.tiles[p].room_id # {id}

\* C6: every Floor cell carries a RoomId that add_room issued on this map
FloorCellsCarryIssuedRoomId ==
    \A p \in DOMAIN grid.tiles :
        grid.tiles[p].kind = "Floor" => \A id \in grid.tiles[p].room_id : room(id).ok

----------------------------------------------------------------------------
(* Properties of the coordinate queries, checked under GeomSpec *)

\* the pixel extent of the grid
grid_width == cols_len * tile_size
grid_height == rows_len * tile_size

\* a pixel rectangle lies entirely within the grid's pixel bounds
Within(b) == b.x >= 0 /\ b.y >= 0 /\ b.x + b.w <= grid_width /\ b.y + b.h <= grid_height

\* a pixel rectangle and the grid's pixel area share a pixel
Overlaps(b) ==
    /\ Max(b.x, 0) < Min(b.x + b.w, grid_width)
    /\ Max(b.y, 0) < Min(b.y + b.h, grid_height)

\* the tile at p and the pixel rectangle share a pixel
TileMeets(p, b) ==
    /\ p.col * tile_size < b.x + b.w /\ b.x < (p.col + 1) * tile_size
    /\ p.row * tile_size < b.y + b.h /\ b.y < (p.row + 1) * tile_size

WindowTiles(win) == RectPositions(TileRect(win.pos, win.size))

WindowInGrid(win) ==
    /\ 0 <= win.pos.row /\ win.pos.row <= win.pos.row + win.size.rows - 1
    /\ win.pos.row + win.size.rows - 1 <= rows_len - 1
    /\ 0 <= win.pos.col /\ win.pos.col <= win.pos.col + win.size.cols - 1
    /\ win.pos.col + win.size.cols - 1 <= cols_len - 1
    /\ win.size.rows >= 1 /\ win.size.cols >= 1

IsExample == grid.size = GridSize(5, 5) /\ tile_size = 10 /\ arg = ExampleBounds

\* C2 as stated: on every map, a rectangle partly or fully outside the grid
\* gives a window inside the grid, without a panic
ClampedWindowOnAnyGrid ==
    op = "grid_area_within" /\ ~Within(arg) => ret.ok /\ WindowInGrid(ret.val)

\* C2 amended: on every map with rows_len >= 1, cols_len >= 1 and
\* tile_size >= 1, a rectangle partly or fully outside the grid's pixel
\* bounds gives, without a panic, a window of at least 1 x 1 inside
\* [0, rows_len - 1] x [0, cols_len - 1]; on the 5 x 5 grid of 10-pixel tiles
\* the rectangle (-15, -15, 10, 10) gives start tile (0, 0).
ClampedWindowOnNonEmptyGrid ==
    op = "grid_area_within" /\ ~Within(arg)
            /\ rows_len >= 1 /\ cols_len >= 1 /\ tile_size >= 1 =>
        /\ ret.ok
        /\ WindowInGrid(ret.val)
        /\ IsExample => ret.val.pos = TilePos(0, 0)

\* C2 witness: the scenario's call has returned
ClampedWindowExample ==
    /\ op = "grid_area_within" /\ IsExample /\ ~Within(arg)
    /\ ret = Ok([pos |-> TilePos(0, 0), size |-> GridSize(2, 2)])

\* C3 as stated: for a rectangle that overlaps the grid, every tile of the
\* returned window meets the rectangle (the window is the smallest)
WindowIsSmallest ==
    op = "grid_area_within" /\ Overlaps(arg) =>
        /\ ret.ok
        /\ \A p \in WindowTiles(ret.val) : TileMeets(p, arg)

\* C3 amended: for a rectangle that overlaps the grid, the returned window
\* lies inside the grid and holds every tile of the grid that meets the
\* rectangle: it contains the overlap, and need not be the smallest such.
WindowCoversOverlap ==
    op = "grid_area_within" /\ Overlaps(arg) =>
        /\ ret.ok
        /\ WindowInGrid(ret.val)
        /\ \A p \in Positions(grid.size) : TileMeets(p, arg) => p \in WindowTiles(ret.val)

\* C3 witness: a rectangle starting left of the grid and reaching into it
\* has got a window of two columns
WindowCoversFromNegativeOrigin ==
    /\ op = "grid_area_within" /\ Overlaps(arg) /\ arg.x < 0 /\ arg.y < 0
    /\ ret.ok /\ ret.val.size.cols = 2 /\ ret.val.size.rows = 2

\* C4: for a rectangle entirely within the grid's pixel bounds, the pixel
\* projection of the returned window contains the rectangle.
WindowProjectionContainsBounds ==
    op = "grid_area_within" /\ Within(arg) =>
        /\ ret.ok
        /\ ret.val.pos.col * tile_size <= arg.x
        /\ arg.x + arg.w <= (ret.val.pos.col + ret.val.size.cols) * tile_size
        /\ ret.val.pos.row * tile_size <= arg.y
        /\ arg.y + arg.h <= (ret.val.pos.row + ret.val.size.rows) * tile_size

\* C4 witness: a rectangle inside the grid that straddles two columns
WindowStraddlesTiles ==
    /\ op = "grid_area_within" /\ Within(arg)
    /\ tile_size = 2 /\ arg.x = 1 /\ arg.w = 2 /\ arg.y = 1 /\ arg.h = 1
    /\ ret = Ok([pos |-> TilePos(0, 0), size |-> GridSize(2, 2)])

\* C7: world_to_tile_pos panics for a point with a negative coordinate or
\* past the grid's pixel extent, and for every other point returns
\* TilePos {row: y / tile_size, col: x / tile_size}, inside the grid.
WorldToTilePosFailsFast ==
    op = "world_to_tile_pos" =>
        LET off == arg.x < 0 \/ arg.y < 0 \/ arg.x >= grid_width \/ arg.y >= grid_height
        IN  /\ off => ~ret.ok
            /\ ~off => /\ ret = Ok(TilePos(arg.y \div tile_size, arg.x \div tile_size))
                       /\ ret.val.row < rows_len /\ ret.val.col < cols_len

\* C7 witness: a point just past the right edge of a non-empty grid
WorldToTilePosPastEdge ==
    /\ op = "world_to_tile_pos" /\ ~ret.ok
    /\ tile_size = 2 /\ cols_len = 2 /\ rows_len = 2
    /\ arg = Point(4, 1)

\* C8: for tile_size >= 1 and every position p of the grid, get(p) succeeds
\* and world_to_tile_pos of p's world top-left point returns p.
TopLeftRoundTrip ==
    op = "world_to_tile_pos" /\ tile_size >= 1 =>
        \A p \in Positions(grid.size) :
            arg = top_left(p, tile_size) => get(p).ok /\ ret = Ok(p)

\* C8 witness: the round trip of tile (1, 0) on 2-pixel tiles
TopLeftRoundTripOffDiagonal ==
    /\ op = "world_to_tile_pos" /\ tile_size = 2
    /\ InGrid(TilePos(1, 0)) /\ arg = top_left(TilePos(1, 0), 2)
    /\ ret = Ok(TilePos(1, 0))

Inverted(tl, br) == tl.row > br.row \/ tl.col > br.col

\* the pixel rectangle of the tiles from tl to br, both included
EnclosingRect(tl, br) ==
    [x |-> tl.col * tile_size, y |-> tl.row * tile_size,
     w |-> (br.col - tl.col + 1) * tile_size, h |-> (br.row - tl.row + 1) * tile_size]

EndFromUnclampedSum ==
    op = "grid_area_within" /\ ret.ok /\ rows_len >= 1 /\ cols_len >= 1 =>
        LET win == ret.val
            to_index(v, len) == Min(Max(Max(v, 0) \div tile_size, 0), len - 1)
        IN  /\ win.pos.row = to_index(arg.y, rows_len)
            /\ win.pos.col = to_index(arg.x, cols_len)
            /\ win.pos.row + win.size.rows - 1 = to_index(arg.y + arg.h, rows_len)
            /\ win.pos.col + win.size.cols - 1 = to_index(arg.x + arg.w, cols_len)

====
